---- MODULE Spec2Model ----
(***************************************************************************)
(* EVMJIT C interface: the host/engine protocol of src/include/evmjit.h,   *)
(* driven by the host program example() of src/examples/capi.c, with the   *)
(* host's query callback query() of the same file.                         *)
(*                                                                         *)
(* The engine behind evmjit_create_instance, evmjit_execute,               *)
(* evmjit_destroy_result and evmjit_destroy_instance is declared in the    *)
(* header but its implementation is not among the sources; those parts are *)
(* modelled from the interface specification and are marked so where they  *)
(* are defined.                                                            *)
(*                                                                         *)
(* Memory is modelled at the granularity of 64-bit words: both unions of   *)
(* the header (evmjit_variant, the payload of evmjit_result) are four      *)
(* words wide, and a member is the set of words it occupies.               *)
(***************************************************************************)
EXTENDS Integers, Sequences, FiniteSets, TLC

VARIABLES
    pc,         \* position of the host program example()
    args,       \* the four callback pointers given to evmjit_create_instance
    jit,        \* the handle evmjit_create_instance returned
    inst,       \* engine side of the handle: "none", "live", "destroyed"
    nCreate,    \* calls of evmjit_create_instance
    nDestroy,   \* calls of evmjit_destroy_instance on a created handle
    badUse,     \* an execute or destroy was made on a destroyed handle
    gas0,       \* the gas argument of evmjit_execute
    gas,        \* the gas counter of the running execution
    eng,        \* engine: "idle", "running", "halted"
    term,       \* the terminal state reached (a return code)
    nTerminal,  \* terminal transitions taken by the execution
    issued,     \* the running execution's callback invocations in the
                \* order the bytecode issued them
    pending,    \* the invocation issued last, until its callback is called
    observed,   \* the invocations in the order the host's callbacks
                \* received them
    store,      \* host storage as left by the storage-write callback
    result,     \* the evmjit_result returned by evmjit_execute
    nResults,   \* results returned by evmjit_execute
    mem,        \* the engine-owned output buffer: "none", "owned", "freed"
    badFree,    \* free() was called on a pointer that is not an owned buffer
    nRelease,   \* calls of evmjit_destroy_result
    relRead,    \* payload members evmjit_destroy_result read
    qlast,      \* what the query callback returned, until the engine
                \* takes it
    clast,      \* what the call callback returned and left in the output
                \* buffer, until the engine goes on
    sub,        \* what the engine made of the call callback's return
    codec       \* the value codec: a conversion in progress

vars == <<pc, args, jit, inst, nCreate, nDestroy, badUse, gas0, gas, eng, term,
          nTerminal, issued, pending, observed, store, result, nResults, mem,
          badFree, nRelease, relRead, qlast, clast, sub, codec>>

(***************************************************************************)
(* Bounds of the model.                                                    *)
(***************************************************************************)
\* Largest gas argument of evmjit_execute (every instruction that calls
\* back costs gas, so this also bounds the number of callbacks of one
\* execution).
MaxGas == 2
\* Storage keys are 0 .. MaxKey.
MaxKey == 1

(***************************************************************************)
(* Types of src/include/evmjit.h.                                          *)
(***************************************************************************)
\* enum evmjit_return_code
evmjit_return == 0
evmjit_selfdestruct == 1
evmjit_exception == -1
ReturnCodes == {evmjit_return, evmjit_selfdestruct, evmjit_exception}

\* enum evmjit_query_key
QueryKeys ==
    {"evmjit_query_address", "evmjit_query_caller", "evmjit_query_origin",
     "evmjit_query_gas_price", "evmjit_query_coinbase",
     "evmjit_query_difficulty", "evmjit_query_gas_limit",
     "evmjit_query_number", "evmjit_query_timestamp",
     "evmjit_query_code_by_address", "evmjit_query_balance",
     "evmjit_query_storage"}

\* enum evmjit_call_kind
CallKinds ==
    {"evmjit_call", "evmjit_delegatecall", "evmjit_callcode", "evmjit_create"}

\* The 64-bit words of a four-word union.
Words == 0 .. 3

\* union evmjit_variant: the words each member occupies.  int64 is bytes
\* 0..7; uint256 is bytes 0..31; address follows 12 bytes of padding and is
\* bytes 12..31; bytes (pointer, size) is bytes 0..15.
VariantMembers == {"int64", "uint256", "address", "bytes"}
VariantWords(m) ==
    CASE m = "int64"   -> {0}
      [] m = "uint256" -> {0, 1, 2, 3}
      [] m = "address" -> {1, 2, 3}
      [] m = "bytes"   -> {0, 1}

\* The anonymous union of struct evmjit_result: output_data (pointer, size)
\* is bytes 0..15, gas_left bytes 16..23, internal_memory bytes 24..31; the
\* 20 bytes of selfdestruct_beneficiary overlay bytes 0..19.
ResultMembers ==
    {"output_data", "gas_left", "internal_memory", "selfdestruct_beneficiary"}
ResultWords(m) ==
    CASE m = "output_data"              -> {0, 1}
      [] m = "gas_left"                 -> {2}
      [] m = "internal_memory"          -> {3}
      [] m = "selfdestruct_beneficiary" -> {0, 1, 2}

\* The table "Types of queries" of evmjit_query_func: the member of the
\* result the key defines.
KeyResultMember(key) ==
    CASE key \in {"evmjit_query_address", "evmjit_query_caller",
                  "evmjit_query_origin", "evmjit_query_coinbase"} -> "address"
      [] key \in {"evmjit_query_gas_price", "evmjit_query_difficulty",
                  "evmjit_query_balance", "evmjit_query_storage"} -> "uint256"
      [] key \in {"evmjit_query_gas_limit", "evmjit_query_number",
                  "evmjit_query_timestamp"} -> "int64"
      [] key = "evmjit_query_code_by_address" -> "bytes"

\* The same table: the members of the argument the key defines (none for the
\* keys that take no argument).
KeyArgMembers(key) ==
    CASE key \in {"evmjit_query_code_by_address", "evmjit_query_balance"}
             -> {"address"}
      [] key = "evmjit_query_storage" -> {"uint256"}
      [] OTHER -> {}

(***************************************************************************)
(* Values.                                                                 *)
(***************************************************************************)
NULL == "NULL"
\* A word whose content is indeterminate holds any of these.
Indet == {0, 1}
\* Contents of an uninitialised four-word object: every word is zero (0) or
\* nonzero (1), each on its own.
Uninit == [Words -> Indet]
\* A 256-bit integer of value v < 2^64 as words[0..3], words[0] lowest.
U256(v) == [w \in Words |-> IF w = 0 THEN v ELSE 0]
StorageKeys == 0 .. MaxKey
StorageValues == {0, 1}

(***************************************************************************)
(* The host's query callback: query() of src/examples/capi.c.              *)
(*   u    the indeterminate content of the local `result`                  *)
(*   bal  what the external balance(env, arg.address) returns              *)
(* result.uint64 names the 64-bit integer member at offset 0 (the header   *)
(* declares it as int64).  The value is the record of what the call wrote, *)
(* which members of arg it read, and the four words it returned.           *)
(***************************************************************************)
\* The gas limit the example reports.
ExampleGasLimit == 314

\* The gas example() passes to evmjit_execute.
ExampleGas == 200000

query(key, arg, u, bal) ==
    IF key = "evmjit_query_gas_limit"
    THEN [key |-> key, arg |-> arg, written |-> "int64", argRead |-> {},
          words |-> [w \in Words |->
                        IF w \in VariantWords("int64")
                        THEN ExampleGasLimit ELSE u[w]]]
    ELSE IF key = "evmjit_query_balance"
    THEN [key |-> key, arg |-> arg, written |-> "uint256",
          argRead |-> {"address"}, words |-> U256(bal)]
    ELSE [key |-> key, arg |-> arg, written |-> "int64", argRead |-> {},
          words |-> [w \in Words |->
                        IF w \in VariantWords("int64") THEN 0 ELSE u[w]]]

NoQuery ==
    [key |-> "none", arg |-> 0, written |-> "none", argRead |-> {},
     words |-> U256(0)]

(***************************************************************************)
(* The host program: example() of src/examples/capi.c.                     *)
(***************************************************************************)
\* The callbacks example() passes: evmjit_create_instance(query, 0, 0, 0).
ExampleCallbacks ==
    [query |-> "query", storage |-> NULL, call |-> NULL, log |-> NULL]

\* A host that passes the four callbacks the header requires.
FullCallbacks ==
    [query |-> "query", storage |-> "storage_func", call |-> "call_func",
     log |-> "log_func"]

AllBound(a) ==
    a.query # NULL /\ a.storage # NULL /\ a.call # NULL /\ a.log # NULL

\* The statement order of example(): the statement that follows p.
\* A mutated order: the instance is destroyed before it is used.
example_order_destroy_first(p) ==
    CASE p = "create"           -> "destroy_instance"
      [] p = "destroy_instance" -> "execute"
      [] p = "execute"          -> "destroy_result"
      [] p = "destroy_result"   -> "done"

\* A mutated order: the result is never released.
example_order_no_release(p) ==
    CASE p = "create"           -> "execute"
      [] p = "execute"          -> "destroy_instance"
      [] p = "destroy_instance" -> "done"
      [] p = "destroy_result"   -> "done"

example_order(p) ==
    CASE p = "create"           -> "execute"
      [] p = "execute"          -> "destroy_result"
      [] p = "destroy_result"   -> "destroy_instance"
      [] p = "destroy_instance" -> "done"

(***************************************************************************)
(* The engine, from the interface specification (its code is not among the *)
(* sources).                                                               *)
(***************************************************************************)
\* evmjit_create_instance: the handles a call may return.  All four
\* callbacks are required; a failed creation returns the null handle, and
\* what happens when a callback is null is not specified further.
CreateOutcomes(a) == IF AllBound(a) THEN {"jit"} ELSE {NULL, "jit"}

\* One callback invocation as it appears in a trace: the channel and the
\* arguments that tell invocations apart.  For a query k is the key and v
\* the argument; for a storage write k is the key and v the value; for a
\* call k is the kind and v the gas budget; for a log k is the log data.
Invocation(ch, k, v) == [ch |-> ch, k |-> k, v |-> v]

NoInvocation == Invocation("none", 0, 0)

\* The host's side of a callback invocation: it takes note of what it was
\* called with, after what it was called with before.
Deliver(obs, e) == Append(obs, e)

\* Whether the trace obs is the start of the trace tr.
IsPrefix(obs, tr) ==
    /\ Len(obs) <= Len(tr)
    /\ \A i \in 1 .. Len(obs) : obs[i] = tr[i]

\* The host's storage-write callback: the key holds the value written last.
storage_func(st, k, v) == [st EXCEPT ![k] = v]

EmptyStore == [k \in StorageKeys |-> 0]

\* The positions of the storage writes to key k among the first n
\* invocations of the trace tr.
WritesBefore(tr, n, k) ==
    {i \in 1 .. n : tr[i].ch = "storage" /\ tr[i].k = k}

\* The value those writes leave in k (there is at least one).
WrittenLast(tr, n, k) ==
    LET ws == WritesBefore(tr, n, k)
    IN tr[CHOOSE i \in ws : \A j \in ws : j <= i].v

\* The call channel's return value: negative is a failed nested call.
\* A mutated test: only -1 is taken as failure.
CallFailedOnlyMinusOne(r) == r = -1

CallFailed(r) == r < 0

\* What the call callback hands back: its return value and the content it
\* left in the output buffer the engine supplied.
CallReturn(kind, cg, r, b) == [kind |-> kind, given |-> cg, ret |-> r, buf |-> b]

NoCall == [kind |-> "none", given |-> 0, ret |-> 0, buf |-> 0]

\* The engine's handling of a call callback's return c: a negative return
\* is a failed nested call, which has no gas-left value and whose output
\* buffer is not read (the header: "There is no need to set 0 address in
\* the output in this case"); otherwise the return value is the gas the
\* nested call left and the buffer is read (for evmjit_create, as the
\* address of the created contract).
\* (taken: the contents the engine has read out of the buffer.)
NotRead == {}
HandleCallReturn(c) ==
    IF CallFailed(c.ret)
    THEN [failed |-> TRUE, left |-> 0, taken |-> NotRead]
    ELSE [failed |-> FALSE, left |-> c.ret, taken |-> {c.buf}]

NoSub == [failed |-> FALSE, left |-> 0, taken |-> NotRead]

\* The evmjit_result of an execution that ended in state code with g gas
\* left: size is the size of the output, b the beneficiary, u the content of
\* the words the engine does not fill.  A non-empty output lives in engine
\* memory (pointer 1) that internal_memory refers to.
MakeResult(code, g, size, b, u) ==
    IF code = evmjit_return
    THEN [return_code |-> code,
          filled |-> {"output_data", "gas_left", "internal_memory"},
          u |-> [w \in Words |-> CASE w = 0 -> size [] w = 1 -> size
                                      [] w = 2 -> g [] w = 3 -> size]]
    ELSE IF code = evmjit_selfdestruct
    THEN [return_code |-> code,
          filled |-> {"selfdestruct_beneficiary"},
          u |-> [w \in Words |->
                    IF w \in ResultWords("selfdestruct_beneficiary")
                    THEN b ELSE u[w]]]
    ELSE [return_code |-> code, filled |-> {}, u |-> u]

NoResult == [return_code |-> evmjit_exception, filled |-> {}, u |-> U256(0)]

\* What the bytecode and the build leave open in a result: the size of the
\* output of a normal stop, the beneficiary of a self-destruct, and the
\* content of the words the engine does not fill (every word of a normal
\* stop's payload is filled).
OutputSizes(code) == IF code = evmjit_return THEN {0, 1} ELSE {0}
Beneficiaries(code) == IF code = evmjit_selfdestruct THEN {0, 1} ELSE {0}
UnfilledWords(code) == IF code = evmjit_return THEN {U256(0)} ELSE Uninit

\* Whether a result carries engine-owned memory.
CarriesMemory(res) ==
    res.return_code = evmjit_return /\ res.u[3] # 0

\* evmjit_destroy_result: the payload members it reads and the pointers it
\* frees.  Only a result of a normal stop has an output to free.
\* A mutated release: internal_memory is freed whatever the return code.
evmjit_destroy_result_unconditional(res) ==
    [reads |-> {"internal_memory"},
     frees |-> IF res.u[3] # 0 THEN {res.u[3]} ELSE {}]

evmjit_destroy_result(res) ==
    IF res.return_code = evmjit_return
    THEN [reads |-> {"internal_memory"},
          frees |-> IF res.u[3] # 0 THEN {res.u[3]} ELSE {}]
    ELSE [reads |-> {}, frees |-> {}]

(***************************************************************************)
(* The value codec.  A big-endian evmjit_hash256 is its 32 bytes, byte 0   *)
(* the most significant.  A host-endian evmjit_uint256 is words[0..3],     *)
(* words[0] the least significant; a 64-bit word is kept as its eight      *)
(* base-256 digits, digit 0 the least significant (its value does not fit  *)
(* the integers of the checker), which on a little-endian host is also the *)
(* order of its bytes in memory.                                           *)
(***************************************************************************)
\* A buffer of the inputs has at most MaxNonZero nonzero bytes.
MaxNonZero == 2
HashBytes == 0 .. 31
WordDigits == 0 .. 7
ByteValues == {1, 255}
ZeroHash == [i \in HashBytes |-> 0]
ZeroUint256 == [k \in Words |-> [j \in WordDigits |-> 0]]

RECURSIVE HashesWith(_)
HashesWith(n) ==
    IF n = 0 THEN {ZeroHash}
    ELSE LET fewer == HashesWith(n - 1)
         IN fewer \cup {[b EXCEPT ![i] = v] :
                           b \in fewer, i \in HashBytes, v \in ByteValues}

HashBuffers == HashesWith(MaxNonZero)

\* Big-endian bytes to host-endian words: the byte of significance 8k + j
\* is byte 31 - (8k + j) of the buffer and digit j of words[k].
\* A mutated conversion: the words are reordered, the bytes inside each word
\* are not.
ToHostEndianWordsOnly(B) ==
    [k \in Words |-> [j \in WordDigits |-> B[8 * (3 - k) + j]]]

ToHostEndian(B) ==
    [k \in Words |-> [j \in WordDigits |-> B[31 - (8 * k + j)]]]

\* Host-endian words back to big-endian bytes.
ToBigEndian(W) ==
    [i \in HashBytes |-> W[(31 - i) \div 8][(31 - i) % 8]]

\* The 32 bytes a little-endian host keeps for the words: words[0] first,
\* each word lowest byte first.
MemoryImage(W) == [m \in HashBytes |-> W[m \div 8][m % 8]]

\* The two reversals, on 32 bytes seen as four words of eight bytes.
ReverseWordOrder(M) ==
    [m \in HashBytes |-> M[8 * (3 - (m \div 8)) + (m % 8)]]
ReverseBytesInWords(M) ==
    [m \in HashBytes |-> M[8 * (m \div 8) + (7 - (m % 8))]]

\* The byte swap the engine applies to a 256-bit value before it hands it
\* to a callback that reads it as bytes.
ByteSwap(W) == [k \in Words |-> [j \in WordDigits |-> W[3 - k][7 - j]]]

\* get_uint256() of src/capi.c: for evmjit_query_balance the argument's
\* memory is read as a struct evmjit_hash256 and passed to balance(), whose
\* answer bal is returned; any other key returns the argument.
get_uint256(key, arg, bal) ==
    IF key = "evmjit_query_balance"
    THEN [address |-> MemoryImage(arg), ret |-> bal]
    ELSE [address |-> ZeroHash, ret |-> arg]

\* The value codec at rest: the state of codec outside its specification.
CodecIdle == [stage |-> "idle"]

\* The value codec about to convert the buffer b: nothing is computed yet.
CodecStart(b) ==
    [stage |-> "start", B |-> b, W |-> ZeroUint256, back |-> ZeroHash,
     key |-> "none", seen |-> ZeroHash, ret |-> ZeroUint256,
     ptr |-> 0, size |-> 0]

(***************************************************************************)
(* Initial state: example() is about to run.  Its callback arguments are   *)
(* those of the example or the four the header requires, and the gas it    *)
(* passes is any amount up to MaxGas.                                      *)
(***************************************************************************)
Init ==
    /\ pc = "create"
    /\ args \in {ExampleCallbacks, FullCallbacks}
    /\ jit = NULL
    /\ inst = "none"
    /\ nCreate = 0
    /\ nDestroy = 0
    /\ badUse = FALSE
    /\ gas0 \in 0 .. MaxGas
    /\ gas = 0
    /\ eng = "idle"
    /\ term = evmjit_return
    /\ nTerminal = 0
    /\ issued = <<>>
    /\ pending = NoInvocation
    /\ observed = <<>>
    /\ store = EmptyStore
    /\ result = NoResult
    /\ nResults = 0
    /\ mem = "none"
    /\ badFree = FALSE
    /\ nRelease = 0
    /\ relRead = {}
    /\ qlast = NoQuery
    /\ clast = NoCall
    /\ sub = NoSub
    /\ codec = CodecIdle

\* The state example() and its execution leave alone.
otherVars == <<codec>>

hostVars == <<pc, args, jit, inst, nCreate, nDestroy, badUse, gas0>>
engineVars == <<gas, eng, term, nTerminal, issued, pending, observed, store,
                qlast, clast, sub>>
resultVars == <<result, nResults, mem, badFree, nRelease, relRead>>

(***************************************************************************)
(* example(): struct evmjit_instance* jit = evmjit_create_instance(...)    *)
(***************************************************************************)
HostCreate ==
    /\ UNCHANGED otherVars
    /\ pc = "create"
    /\ \E h \in CreateOutcomes(args) :
          /\ jit' = h
          /\ inst' = IF h = NULL THEN "none" ELSE "live"
    /\ nCreate' = nCreate + 1
    /\ pc' = example_order("create")
    /\ UNCHANGED <<args, nDestroy, badUse, gas0>>
    /\ UNCHANGED engineVars
    /\ UNCHANGED resultVars

(***************************************************************************)
(* example(): evmjit_execute(jit, code_hash, code_view, gas, input, value) *)
(* is entered.  The handle is not tested: a null handle is dereferenced by *)
(* the engine, which ends the process.                                     *)
(***************************************************************************)
HostExecute ==
    /\ UNCHANGED otherVars
    /\ pc = "execute"
    /\ IF jit = NULL
       THEN /\ pc' = "crashed"
            /\ UNCHANGED <<badUse, gas, eng>>
       ELSE /\ pc' = "in_execute"
            /\ badUse' = (badUse \/ inst = "destroyed")
            /\ gas' = gas0
            /\ eng' = "running"
    /\ UNCHANGED <<args, jit, inst, nCreate, nDestroy, gas0>>
    /\ UNCHANGED <<term, nTerminal, issued, pending, observed, store, qlast,
                   clast, sub>>
    /\ UNCHANGED resultVars

\* The process ends in a call through a null function pointer.
Crash ==
    /\ pc' = "crashed"
    /\ UNCHANGED <<args, jit, inst, nCreate, nDestroy, badUse, gas0>>
    /\ UNCHANGED engineVars
    /\ UNCHANGED resultVars

Running == pc = "in_execute" /\ eng = "running"

\* The engine is between two instructions: no invocation is waiting for its
\* callback and no callback's return is waiting to be taken.
Stepping ==
    Running /\ pending = NoInvocation /\ qlast = NoQuery /\ clast = NoCall

\* The arguments the engine passes with a key: an address or a storage key
\* for the keys that take one, and a value nobody reads (0) for the others.
QueryArgs(key) == IF KeyArgMembers(key) = {} THEN {0} ELSE StorageKeys

\* What the external balance() may return when query() calls it.
BalanceValues(key) ==
    IF key = "evmjit_query_balance" THEN StorageValues ELSE {0}

\* The data of a log, which tell one log from another.
LogData == {0, 1}

\* The invocations an instruction of the bytecode can issue when the
\* execution holds g gas: a query of any key, a storage write, a nested call
\* or create with a gas budget below g, a log.
Instructions(g) ==
    UNION {{Invocation("query", key, arg) : arg \in QueryArgs(key)} :
               key \in QueryKeys}
    \cup {Invocation("storage", k, v) : k \in StorageKeys, v \in StorageValues}
    \cup {Invocation("call", kind, cg) : kind \in CallKinds, cg \in 0 .. (g - 1)}
    \cup {Invocation("log", d, 0) : d \in LogData}

\* What the call callback may return for a budget cg: a failure, or the gas
\* it says is left (the host is free to report more than it was given).
CallReturns(cg) == -2 .. (cg + 1)

(***************************************************************************)
(* The bytecode reaches an instruction that needs the host: the engine     *)
(* charges it (any positive amount: the gas costs are not part of the      *)
(* interface) and is about to call the callback of its channel.            *)
(***************************************************************************)
EngineIssue ==
    /\ UNCHANGED otherVars
    /\ Stepping
    /\ gas >= 1
    /\ pending' \in Instructions(gas)
    /\ issued' = Append(issued, pending')
    /\ gas' \in 0 .. (gas - 1)
    /\ UNCHANGED hostVars
    /\ UNCHANGED <<eng, term, nTerminal, observed, store, qlast, clast, sub>>
    /\ UNCHANGED resultVars

(***************************************************************************)
(* The engine calls the query callback with the pending query.             *)
(***************************************************************************)
EngineQuery ==
    /\ UNCHANGED otherVars
    /\ Running
    /\ pending.ch = "query"
    /\ IF args.query = NULL
       THEN Crash
       ELSE /\ qlast' \in {query(pending.k, pending.v, u, bal) :
                             u \in Uninit, bal \in BalanceValues(pending.k)}
            /\ observed' = Deliver(observed, pending)
            /\ pending' = NoInvocation
            /\ UNCHANGED hostVars
            /\ UNCHANGED <<gas, eng, term, nTerminal, issued, store, clast, sub>>
            /\ UNCHANGED resultVars

(***************************************************************************)
(* The engine calls the storage callback with the pending write; the       *)
(* callback returns nothing, so the engine goes on at once.                *)
(***************************************************************************)
EngineStore ==
    /\ UNCHANGED otherVars
    /\ Running
    /\ pending.ch = "storage"
    /\ IF args.storage = NULL
       THEN Crash
       ELSE /\ store' = storage_func(store, pending.k, pending.v)
            /\ observed' = Deliver(observed, pending)
            /\ pending' = NoInvocation
            /\ UNCHANGED hostVars
            /\ UNCHANGED <<gas, eng, term, nTerminal, issued, qlast, clast, sub>>
            /\ UNCHANGED resultVars

(***************************************************************************)
(* The engine calls the call callback with the pending nested call or      *)
(* create: the callback returns the gas left of the budget, or a negative  *)
(* value, and leaves some content in the output buffer; the engine handles *)
(* the return.                                                             *)
(***************************************************************************)
EngineCall ==
    /\ UNCHANGED otherVars
    /\ Running
    /\ pending.ch = "call"
    /\ IF args.call = NULL
       THEN Crash
       ELSE /\ clast' \in {CallReturn(pending.k, pending.v, r, b) :
                             r \in CallReturns(pending.v), b \in Indet}
            /\ sub' = HandleCallReturn(clast')
            /\ observed' = Deliver(observed, pending)
            /\ pending' = NoInvocation
            /\ UNCHANGED hostVars
            /\ UNCHANGED <<gas, eng, term, nTerminal, issued, store, qlast>>
            /\ UNCHANGED resultVars

(***************************************************************************)
(* The engine calls the log callback with the pending log; the callback    *)
(* returns nothing.                                                        *)
(***************************************************************************)
EngineLog ==
    /\ UNCHANGED otherVars
    /\ Running
    /\ pending.ch = "log"
    /\ IF args.log = NULL
       THEN Crash
       ELSE /\ observed' = Deliver(observed, pending)
            /\ pending' = NoInvocation
            /\ UNCHANGED hostVars
            /\ UNCHANGED <<gas, eng, term, nTerminal, issued, store, qlast,
                           clast, sub>>
            /\ UNCHANGED resultVars

(***************************************************************************)
(* A query or call callback has returned: the engine has taken what it     *)
(* returned and goes on with the next instruction.                         *)
(***************************************************************************)
EngineResume ==
    /\ UNCHANGED otherVars
    /\ Running
    /\ qlast # NoQuery \/ clast # NoCall
    /\ qlast' = NoQuery
    /\ clast' = NoCall
    /\ sub' = NoSub
    /\ UNCHANGED hostVars
    /\ UNCHANGED <<gas, eng, term, nTerminal, issued, pending, observed, store>>
    /\ UNCHANGED resultVars

(***************************************************************************)
(* The execution ends: by STOP or RETURN, by SELFDESTRUCT, or by a fault   *)
(* (running out of gas included).  Its callback invocations are over.      *)
(***************************************************************************)
EngineHalt ==
    /\ UNCHANGED otherVars
    /\ Stepping
    /\ \E code \in ReturnCodes : term' = code
    /\ eng' = "halted"
    /\ nTerminal' = nTerminal + 1
    /\ issued' = <<>>
    /\ observed' = <<>>
    /\ UNCHANGED <<pending, qlast, clast, sub>>
    /\ UNCHANGED hostVars
    /\ UNCHANGED <<gas, store>>
    /\ UNCHANGED resultVars

(***************************************************************************)
(* evmjit_execute returns its result to example().                         *)
(***************************************************************************)
EngineReturn ==
    /\ UNCHANGED otherVars
    /\ pc = "in_execute"
    /\ eng = "halted"
    /\ result' \in {MakeResult(term, gas, size, b, u) :
                     size \in OutputSizes(term), b \in Beneficiaries(term),
                     u \in UnfilledWords(term)}
    /\ mem' = IF CarriesMemory(result') THEN "owned" ELSE mem
    /\ nResults' = nResults + 1
    /\ eng' = "idle"
    /\ pc' = example_order("execute")
    /\ UNCHANGED <<args, jit, inst, nCreate, nDestroy, badUse, gas0>>
    /\ UNCHANGED <<gas, term, nTerminal, issued, pending, observed, store,
                   qlast, clast, sub>>
    /\ UNCHANGED <<badFree, nRelease, relRead>>

(***************************************************************************)
(* example(): evmjit_destroy_result(result)                                *)
(***************************************************************************)
HostDestroyResult ==
    /\ UNCHANGED otherVars
    /\ pc = "destroy_result"
    /\ LET rel == evmjit_destroy_result(result)
       IN /\ relRead' = rel.reads
          /\ IF rel.frees = {}
             THEN UNCHANGED <<mem, badFree>>
             ELSE IF mem = "owned"
                  THEN mem' = "freed" /\ UNCHANGED badFree
                  ELSE badFree' = TRUE /\ UNCHANGED mem
    /\ nRelease' = nRelease + 1
    /\ pc' = example_order("destroy_result")
    /\ UNCHANGED <<args, jit, inst, nCreate, nDestroy, badUse, gas0>>
    /\ UNCHANGED engineVars
    /\ UNCHANGED <<result, nResults>>

(***************************************************************************)
(* example(): evmjit_destroy_instance(jit)                                 *)
(***************************************************************************)
HostDestroyInstance ==
    /\ UNCHANGED otherVars
    /\ pc = "destroy_instance"
    /\ badUse' = (badUse \/ inst = "destroyed")
    /\ inst' = IF inst = "live" THEN "destroyed" ELSE inst
    /\ nDestroy' = IF jit = NULL THEN nDestroy ELSE nDestroy + 1
    /\ pc' = example_order("destroy_instance")
    /\ UNCHANGED <<args, jit, nCreate, gas0>>
    /\ UNCHANGED engineVars
    /\ UNCHANGED resultVars

Next ==
    \/ HostCreate
    \/ HostExecute
    \/ EngineIssue
    \/ EngineQuery
    \/ EngineStore
    \/ EngineCall
    \/ EngineLog
    \/ EngineResume
    \/ EngineHalt
    \/ EngineReturn
    \/ HostDestroyResult
    \/ HostDestroyInstance

Spec == Init /\ [][Next]_vars

\* evmjit_execute does not return until the execution has ended, the
\* callbacks are synchronous and every instruction consumes gas: the
\* engine keeps stepping.
FairSpec == Spec /\ WF_vars(Next)

(***************************************************************************)
(* C1.  Instance lifecycle: the handle is created once, is executed on     *)
(* only while it is live, and is destroyed exactly once; after             *)
(* evmjit_destroy_instance no execute or destroy is made on it.  (example()*)
(* never calls evmjit_set_option, so no configure can follow the destroy.) *)
(***************************************************************************)
C1_Lifecycle ==
    /\ nCreate <= 1
    /\ nDestroy <= 1
    /\ ~badUse
    /\ (inst = "destroyed" => pc = "done")
    /\ (pc \in {"in_execute", "destroy_result", "destroy_instance"}
            => inst = "live" /\ nCreate = 1 /\ nDestroy = 0)
    /\ (pc = "done" => nCreate = 1 /\ nDestroy = 1 /\ inst = "destroyed")

\* example() has run to its end: create, execute, destroy_result,
\* destroy_instance.
C1_Witness ==
    /\ pc = "done"
    /\ inst = "destroyed"
    /\ nCreate = 1
    /\ nDestroy = 1
    /\ nResults = 1
    /\ nRelease = 1

(***************************************************************************)
(* C2.  Every call to evmjit_execute reaches exactly one of the three      *)
(* terminal states, exactly once, and returns exactly one result whose     *)
(* return_code is that state.                                              *)
(***************************************************************************)
C2_OneTerminal ==
    /\ term \in ReturnCodes
    /\ nTerminal <= 1
    /\ nResults <= 1
    /\ (Running => nTerminal = 0 /\ nResults = 0)
    /\ (eng = "halted" => nTerminal = 1 /\ nResults = 0)
    /\ (nResults = 1 => nTerminal = 1 /\ result.return_code = term)

C3_ReleasedExactlyOnce ==
    /\ nRelease <= 1
    /\ ~badFree
    /\ (nResults = 1 /\ CarriesMemory(result) /\ nRelease = 0 => mem = "owned")
    /\ (nResults = 1 /\ CarriesMemory(result) /\ nRelease = 1 => mem = "freed")
    /\ (nResults = 1 /\ CarriesMemory(result) /\ pc = "done" => nRelease = 1)

\* A result with a non-empty output was released and example() has ended.
C3_Witness ==
    /\ pc = "done"
    /\ nResults = 1
    /\ CarriesMemory(result)
    /\ nRelease = 1
    /\ mem = "freed"

(***************************************************************************)
(* C4.  In a self-destruct result only selfdestruct_beneficiary is filled, *)
(* and evmjit_destroy_result on it reads no payload member and frees       *)
(* nothing: the words the beneficiary overlays are not taken as an output  *)
(* view or a memory handle.                                                *)
(***************************************************************************)
C4_SelfdestructNotFreed ==
    (nResults = 1 /\ result.return_code = evmjit_selfdestruct)
        => /\ result.filled = {"selfdestruct_beneficiary"}
           /\ (nRelease >= 1 => /\ relRead = {}
                                /\ ~badFree
                                /\ mem = "none")

\* A self-destruct result whose beneficiary bytes and whose unfilled
\* internal_memory word are nonzero has been passed to
\* evmjit_destroy_result.
C4_Witness ==
    /\ nResults = 1
    /\ result.return_code = evmjit_selfdestruct
    /\ result.u[0] # 0
    /\ result.u[3] # 0
    /\ nRelease = 1

(***************************************************************************)
(* C6.  evmjit_execute is only ever invoked on a non-null instance that    *)
(* was created with four non-null callbacks.                               *)
(***************************************************************************)
C6_ExecuteOnlyWithFourCallbacks ==
    /\ (pc = "in_execute" => jit # NULL /\ AllBound(args))
    /\ (pc = "crashed" /\ eng = "idle" => jit # NULL)

C8_LoadReturnsLastWrite ==
    qlast.key = "evmjit_query_storage" => qlast.words = U256(store[qlast.arg])

(***************************************************************************)
(* C9.  For every key the query callback writes exactly the member of the  *)
(* result the key table assigns to the key, and reads the argument only as *)
(* the member the table assigns.                                           *)
(***************************************************************************)
C9_QueryWritesTableMember ==
    qlast.key \in QueryKeys
        => /\ qlast.written = KeyResultMember(qlast.key)
           /\ qlast.argRead \subseteq KeyArgMembers(qlast.key)

(***************************************************************************)
(* C10.  The return of the call callback is handled by its sign.  When it  *)
(* is negative the engine has taken the nested call or create as failed    *)
(* and has taken nothing from the output buffer, whatever the host left in *)
(* it, and the execution is still running; when it is not, the engine has  *)
(* taken the return as the gas the nested call left and the buffer's       *)
(* content as its output.                                                  *)
(***************************************************************************)
C10_CallReturn ==
    clast.kind \in CallKinds
        => /\ Running
           /\ nTerminal = 0
           /\ (clast.ret < 0
                 => /\ sub.failed
                    /\ sub.taken = {})
           /\ (clast.ret >= 0
                 => /\ ~sub.failed
                    /\ sub.left = clast.ret
                    /\ sub.taken = {clast.buf})

ExampleAtRest ==
    /\ pc = "create"
    /\ args = ExampleCallbacks
    /\ jit = NULL
    /\ inst = "none"
    /\ nCreate = 0
    /\ nDestroy = 0
    /\ badUse = FALSE
    /\ gas0 = ExampleGas
    /\ gas = 0
    /\ eng = "idle"
    /\ term = evmjit_return
    /\ nTerminal = 0
    /\ issued = <<>>
    /\ pending = NoInvocation
    /\ observed = <<>>
    /\ store = EmptyStore
    /\ result = NoResult
    /\ nResults = 0
    /\ mem = "none"
    /\ badFree = FALSE
    /\ nRelease = 0
    /\ relRead = {}
    /\ qlast = NoQuery
    /\ clast = NoCall
    /\ sub = NoSub

(***************************************************************************)
(* The value codec at work: a big-endian buffer is converted to the        *)
(* host-endian words and back, and the words are handed, byte-swapped, to  *)
(* get_uint256().                                                          *)
(***************************************************************************)
CodecInit ==
    /\ ExampleAtRest
    /\ \E b \in HashBuffers : codec = CodecStart(b)

CodecUnchanged ==
    /\ UNCHANGED hostVars
    /\ UNCHANGED engineVars
    /\ UNCHANGED resultVars

ConvertToHost ==
    /\ codec.stage = "start"
    /\ codec' = [codec EXCEPT !.stage = "host", !.W = ToHostEndian(codec.B)]
    /\ CodecUnchanged

ConvertBack ==
    /\ codec.stage = "host"
    /\ codec' = [codec EXCEPT !.stage = "back", !.back = ToBigEndian(codec.W)]
    /\ CodecUnchanged

\* The keys of src/capi.c that get_uint256() is called with here: one of
\* its balance branch, one of its default branch.
Uint256Keys == {"evmjit_query_balance", "evmjit_storage_load"}

QueryUint256 ==
    /\ codec.stage = "back"
    /\ \E key \in Uint256Keys, bal \in {ZeroUint256, codec.W} :
          LET r == get_uint256(key, ByteSwap(codec.W), bal)
          IN codec' = [codec EXCEPT !.stage = "queried", !.key = key,
                                    !.seen = r.address, !.ret = r.ret]
    /\ CodecUnchanged

(***************************************************************************)
(* The layout of union evmjit_variant (evmjit.h:121-139), in bytes.        *)
(***************************************************************************)
Int64Size == 8
Hash160Size == 20
AddressPaddingSize == 12
WordAlign == 8
CacheLineSize == 64

\* A data pointer and a size_t have the same size, 4 or 8 bytes by target.
PointerSizes == {4, 8}

\* sizeof of each member of the union.
VariantMemberSize(m, ptr) ==
    CASE m = "int64"   -> Int64Size
      [] m = "uint256" -> Cardinality(Words) * Int64Size
      [] m = "address" -> AddressPaddingSize + Hash160Size
      [] m = "bytes"   -> ptr + ptr

SetMax(S) == CHOOSE x \in S : \A y \in S : y <= x
RoundUp(n, a) == ((n + a - 1) \div a) * a

\* sizeof(union evmjit_variant): its largest member, rounded up to the
\* alignment of the union.
sizeof_evmjit_variant(ptr) ==
    RoundUp(SetMax({VariantMemberSize(m, ptr) : m \in VariantMembers}),
            WordAlign)

SizeofVariant ==
    /\ codec.stage = "queried"
    /\ \E p \in PointerSizes :
          codec' = [codec EXCEPT !.stage = "sized", !.ptr = p,
                                 !.size = sizeof_evmjit_variant(p)]
    /\ CodecUnchanged

CodecNext ==
    \/ ConvertToHost
    \/ ConvertBack
    \/ QueryUint256
    \/ SizeofVariant

CodecSpec == CodecInit /\ [][CodecNext]_vars

(***************************************************************************)
(* C12: for every 32-byte big-endian buffer B, converting B to the         *)
(* host-endian four-word form and converting back yields B unchanged; the  *)
(* conversion is the exact reversal of the word order and of the byte      *)
(* order inside each word (the words in the host's memory are B with both  *)
(* reversals applied), and the byte-swapped words that get_uint256() reads *)
(* as a hash are B again.                                                  *)
(***************************************************************************)
C12_RoundTrip ==
    /\ codec.stage \in {"host", "back", "queried", "sized"} =>
          MemoryImage(codec.W) = ReverseWordOrder(ReverseBytesInWords(codec.B))
    /\ codec.stage \in {"back", "queried", "sized"} => codec.back = codec.B
    /\ (codec.stage \in {"queried", "sized"}
          /\ codec.key = "evmjit_query_balance") => codec.seen = codec.B

\* A buffer whose two nonzero bytes differ and lie in different words at
\* different offsets has gone to words and back and through get_uint256().
C12_Witness ==
    /\ codec.stage = "queried"
    /\ codec.key = "evmjit_query_balance"
    /\ codec.B[0] = 1
    /\ codec.B[9] = 255
    /\ codec.W[3][7] = 1
    /\ codec.W[2][6] = 255
    /\ codec.back = codec.B
    /\ codec.seen = codec.B

(***************************************************************************)
(* C13: union evmjit_variant has a fixed size of 64 bytes (one cache       *)
(* line): the largest of its members occupies 64 bytes.                    *)
(***************************************************************************)
C13_VariantIsOneCacheLine ==
    codec.stage = "sized" => codec.size = CacheLineSize

====
